---- MODULE Spec2Model ----
(***************************************************************************)
(* Order lifecycle and inventory ledger of the vendly backend:             *)
(* OrderService (app/services/order.py), ProductService.update_stock and   *)
(* update_product (app/services/product_service.py), over the tables of    *)
(* app/models/order.py and app/models/product.py.                          *)
(*                                                                         *)
(* Money is in integer cents, as in seed_database.py.  A timestamp is a    *)
(* reading of the clock `now`; NULL stands for a column that is not set.   *)
(***************************************************************************)
EXTENDS Integers, Sequences, FiniteSets, TLC

\* ---------------------------------------------------------------- bounds
NumProducts == 1
MaxStock == 2
MaxQty == 2
MaxLines == 2
MaxOrders == 1
MaxTime == 2
MaxPrice == 2
NumSessions == 2
NumCustomers == 1
NumStores == 2
MaxCost == 1
TicksPerDay == 2
MaxAnalyticsOrders == 2
MaxRestores == 2

\* ------------------------------------------------------------- constants
NULL == 0

ProductIds == 1..NumProducts
\* product ids a request can name: the rows of the table and one id with no row
RequestProductIds == 1..(NumProducts + 1)
OrderIds == 1..MaxOrders
SessionIds == 1..NumSessions
CustomerIds == 1..NumCustomers
StoreIds == 1..NumStores
Costs == 0..MaxCost

NumCategories == 2
MaxProducts == 2
MaxRating == 2
MaxMessages == 2
NumSockets == 2
MaxReviews == 3
CategoryIds == 1..NumCategories

\* users.id of the store-type users; every other user is a customer
FirstOwner == NumCustomers + 2
StoreOwnerIds == FirstOwner..(NumCustomers + 1 + NumStores)
Prices == 1..MaxPrice
Times == 1..MaxTime
\* the period names of the analytics endpoints and one name that is none of them
Periods == {"week", "month", "quarter", "year", "day"}

PENDING == "pending"
CONFIRMED == "confirmed"
SHIPPED == "shipped"
DELIVERED == "delivered"
CANCELED == "canceled"
OrderStatus == {PENDING, CONFIRMED, SHIPPED, DELIVERED, CANCELED}
\* OrderUpdate.status left out of the request body (exclude_unset)
Unset == "unset"

\* OrderProductCreate: product_id, quantity > 0
OrderProductCreate == [product_id : RequestProductIds, quantity : 1..MaxQty]

RECURSIVE SeqsUpTo(_, _)
SeqsUpTo(S, n) ==
  IF n = 0 THEN {<<>>}
  ELSE LET shorter == SeqsUpTo(S, n - 1)
       IN shorter \cup {Append(q, x) : q \in {r \in shorter : Len(r) = n - 1}, x \in S}

\* OrderCreate.products: a non-empty list of lines
OrderCreate == SeqsUpTo(OrderProductCreate, MaxLines) \ {<<>>}

VARIABLES
  products,       \* products table: id -> row
  orders,         \* orders table with its order_products rows: id -> row
  next_order_id,  \* next primary key of the orders table
  now,            \* the clock read by datetime.utcnow()
  last,           \* the last service call and its outcome
  sessions,       \* the database sessions of the concurrent requests
  categories,     \* categories table: the ids of its rows
  stores,         \* stores table: id -> row
  reviews,        \* reviews table: id -> row
  messages,       \* chat_messages table: id -> row, in order of creation
  active_connections,  \* ConnectionManager.active_connections
  online_users         \* ConnectionManager.online_users

\* the tables and the connection registry that the order endpoints leave alone
others == <<categories, stores, reviews, messages, active_connections, online_users>>

vars == <<products, orders, next_order_id, now, last, sessions,
          categories, stores, reviews, messages, active_connections, online_users>>

\* ------------------------------------------------------ pure operations

Stock(prods) == [p \in ProductIds |-> prods[p].stock]

\* every stock stays inside the explored window
StockBounded(prods) == \A p \in ProductIds : prods[p].stock <= MaxStock

\* a validation that refuses an order for the whole remaining stock
ValidateLineStrict(prods, item) ==
  IF item.product_id \notin DOMAIN prods THEN "not_found"
  ELSE IF ~prods[item.product_id].is_active THEN "inactive"
  ELSE IF prods[item.product_id].stock <= item.quantity THEN "insufficient"
  ELSE "ok"

\* a validation that looks at the stock before it looks at is_active
ValidateLineStockFirst(prods, item) ==
  IF item.product_id \notin DOMAIN prods THEN "not_found"
  ELSE IF prods[item.product_id].stock < item.quantity THEN "insufficient"
  ELSE IF ~prods[item.product_id].is_active THEN "inactive"
  ELSE "ok"

\* create_order, per line: product exists, is active, has enough stock
ValidateLine(prods, item) ==
  IF item.product_id \notin DOMAIN prods THEN "not_found"
  ELSE IF ~prods[item.product_id].is_active THEN "inactive"
  ELSE IF prods[item.product_id].stock < item.quantity THEN "insufficient"
  ELSE "ok"

\* the exception create_order raises: that of the first failing line
RECURSIVE FirstError(_, _)
FirstError(prods, items) ==
  IF items = <<>> THEN "ok"
  ELSE LET e == ValidateLine(prods, Head(items))
       IN IF e # "ok" THEN e ELSE FirstError(prods, Tail(items))

\* "Available: {product.stock}" of the insufficient-stock message, NULL for
\* the other outcomes
RECURSIVE Available(_, _)
Available(prods, items) ==
  IF items = <<>> THEN NULL
  ELSE IF ValidateLine(prods, Head(items)) = "insufficient"
  THEN prods[Head(items).product_id].stock
  ELSE IF ValidateLine(prods, Head(items)) # "ok" THEN NULL
  ELSE Available(prods, Tail(items))

\* an effective price that applies the discount whatever its end date
EffectivePriceNoExpiry(product, t) ==
  IF product.discount_price # NULL THEN product.discount_price ELSE product.price

\* effective price of a product at time t
EffectivePrice(product, t) ==
  IF product.discount_price # NULL
     /\ (product.discount_end_date = NULL \/ product.discount_end_date > t)
  THEN product.discount_price
  ELSE product.price

\* order_products_data: the lines with the unit price they capture
OrderProductsData(prods, items, t) ==
  [k \in 1..Len(items) |->
     [product_id |-> items[k].product_id,
      quantity   |-> items[k].quantity,
      unit_price |-> EffectivePrice(prods[items[k].product_id], t)]]

\* a total taken from the list price instead of the effective price
RECURSIVE TotalAmountListPrice(_, _, _)
TotalAmountListPrice(prods, items, t) ==
  IF items = <<>> THEN 0
  ELSE prods[Head(items).product_id].price * Head(items).quantity
         + TotalAmountListPrice(prods, Tail(items), t)

\* total_amount += effective_price * item.quantity, over the request's lines
RECURSIVE TotalAmount(_, _, _)
TotalAmount(prods, items, t) ==
  IF items = <<>> THEN 0
  ELSE EffectivePrice(prods[Head(items).product_id], t) * Head(items).quantity
         + TotalAmount(prods, Tail(items), t)

\* item_data['product'].stock -= item_data['quantity'], line by line
RECURSIVE ReduceStock(_, _)
ReduceStock(prods, lines) ==
  IF lines = <<>> THEN prods
  ELSE ReduceStock(
         [prods EXCEPT ![Head(lines).product_id].stock = @ - Head(lines).quantity],
         Tail(lines))

\* a restore that stops after the first line
RestoreFirstLine(prods, lines) ==
  IF lines = <<>> THEN prods
  ELSE [prods EXCEPT ![Head(lines).product_id].stock = @ + Head(lines).quantity]

\* product.stock += order_product.quantity, line by line
RECURSIVE _restore_order_stock(_, _)
_restore_order_stock(prods, lines) ==
  IF lines = <<>> THEN prods
  ELSE _restore_order_stock(
         [prods EXCEPT ![Head(lines).product_id].stock = @ + Head(lines).quantity],
         Tail(lines))

\* a create_order that reduces the stock of a line as soon as it is validated
RECURSIVE CreateOrderProductsEager(_, _)
CreateOrderProductsEager(prods, items) ==
  IF items = <<>> THEN prods
  ELSE IF ValidateLine(prods, Head(items)) # "ok" THEN prods
  ELSE CreateOrderProductsEager(ReduceStock(prods, <<Head(items)>>), Tail(items))

\* the products table after a create_order call, raised or committed
CreateOrderProducts(prods, items) ==
  IF FirstError(prods, items) = "ok" THEN ReduceStock(prods, items) ELSE prods

\* the row create_order inserts.  restored is no column: it counts, up to
\* MaxRestores, the committed calls of _restore_order_stock for the order.
NewOrder(prods, items, t, customer_id) ==
  [customer_id  |-> customer_id,
   total_amount |-> TotalAmount(prods, items, t),
   status       |-> PENDING,
   created_at   |-> t,
   shipped_at   |-> NULL,
   delivered_at |-> NULL,
   canceled_at  |-> NULL,
   lines        |-> OrderProductsData(prods, items, t),
   restored     |-> 0]

\* ----------------------------------------------------------------- state

\* no stock recorded
NoStock == [p \in ProductIds |-> 0]

\* a call of the service and its outcome.  arg is the request: the lines of
\* create_order, the status of update_order, the operation and quantity of
\* update_stock, the store and window of an analytics call.
\* pre is the stock a create_order call found and, before the first call, the
\* stock the products start with.  detail is what the response carries: the
\* available stock of an insufficient-stock error, the report of an analytics
\* call.
Call(op, ok, err, order, arg) ==
  [op |-> op, ok |-> ok, err |-> err, order |-> order, arg |-> arg,
   pre |-> IF op \in {"init", "create_order"} THEN Stock(products) ELSE NoStock,
   detail |-> NULL]

\* a product the session has not loaded
NoRow ==
  [stock |-> 0, is_active |-> FALSE, price |-> 0,
   discount_price |-> NULL, discount_end_date |-> NULL,
   store_id |-> 0, production_cost |-> 0, category_id |-> 0]

\* a session of SessionLocal before its request starts: an empty identity map
IdleSession ==
  [pc |-> "idle", items |-> <<>>, customer_id |-> 0, i |-> 0, result |-> "",
   cache |-> [p \in ProductIds |-> [loaded |-> FALSE, row |-> NoRow]]]

\* The rows that exist before the first request: every category, the store of
\* the seeded products with its owner, no review, no message, no connection.
InitOthers ==
  /\ categories = CategoryIds
  /\ stores = (1 :> [name |-> "mart", owner_id |-> FirstOwner])
  /\ reviews = <<>>
  /\ messages = <<>>
  /\ active_connections = <<>>
  /\ online_users = {}

Init ==
  /\ products \in [ProductIds ->
                     [stock : 0..MaxStock, is_active : {TRUE}, price : {1},
                      discount_price : {NULL}, discount_end_date : {NULL},
                      store_id : {1}, production_cost : {0}, category_id : {1}]]
  /\ orders = <<>>
  /\ next_order_id = 1
  /\ now = 1
  /\ last = Call("init", TRUE, "", 0, "")
  /\ sessions = [s \in SessionIds |-> IdleSession]
  /\ InitOthers

\* the tables when the analytics are asked for: a product of store 1 with any
\* production cost, and no order yet
InitAnalytics ==
  /\ products \in [ProductIds ->
                     [stock : {MaxStock}, is_active : {TRUE}, price : {MaxPrice + 1},
                      discount_price : {NULL}, discount_end_date : {NULL},
                      store_id : {1}, production_cost : Costs, category_id : {1}]]
  /\ orders = <<>>
  /\ next_order_id = 1
  /\ now = 1
  /\ last = Call("init", TRUE, "", 0, "")
  /\ sessions = [s \in SessionIds |-> IdleSession]
  /\ InitOthers

\* --------------------------------------------------------------- actions

\* time passes between two requests
Tick ==
  /\ now < MaxTime
  /\ now' = now + 1
  /\ UNCHANGED <<products, orders, next_order_id, last, sessions, others>>

\* OrderService.create_order, run to completion in one session, while the
\* orders table holds fewer than cap orders
CreateOrderUpTo(items, customer_id, cap) ==
  /\ next_order_id <= cap
  /\ LET err == FirstError(products, items)
     IN /\ products' = CreateOrderProducts(products, items)
        /\ IF err = "ok"
           THEN /\ orders' = orders @@ (next_order_id :> NewOrder(products, items, now, customer_id))
                /\ next_order_id' = next_order_id + 1
                /\ last' = Call("create_order", TRUE, "", next_order_id, items)
           ELSE /\ UNCHANGED <<orders, next_order_id>>
                /\ last' = [Call("create_order", FALSE, err, 0, items)
                              EXCEPT !.detail = Available(products, items)]
  /\ UNCHANGED <<now, sessions, others>>

CreateOrder(items, customer_id) == CreateOrderUpTo(items, customer_id, MaxOrders)

\* an update_order that stamps the time whether or not the column is set
UpdatedOrderOverwrite(order, new_status, t) ==
  IF new_status = SHIPPED
  THEN [order EXCEPT !.shipped_at = t, !.status = new_status]
  ELSE IF new_status = DELIVERED
  THEN [order EXCEPT !.delivered_at = t, !.status = new_status]
  ELSE IF new_status = CANCELED /\ order.canceled_at = NULL
  THEN [order EXCEPT !.canceled_at = t, !.status = new_status]
  ELSE [order EXCEPT !.status = new_status]

\* the order row after the status branch of update_order, at time t
UpdatedOrder(order, new_status, t) ==
  IF new_status = SHIPPED /\ order.shipped_at = NULL
  THEN [order EXCEPT !.shipped_at = t, !.status = new_status]
  ELSE IF new_status = DELIVERED /\ order.delivered_at = NULL
  THEN [order EXCEPT !.delivered_at = t, !.status = new_status]
  ELSE IF new_status = CANCELED /\ order.canceled_at = NULL
  THEN [order EXCEPT !.canceled_at = t, !.status = new_status]
  ELSE [order EXCEPT !.status = new_status]

\* the order after a committed _restore_order_stock(order)
Restored(order) ==
  [order EXCEPT !.restored = IF @ < MaxRestores THEN @ + 1 ELSE @]

\* the products table after the status branch of update_order
UpdatedOrderProducts(prods, order, new_status) ==
  IF new_status = CANCELED /\ order.canceled_at = NULL
  THEN _restore_order_stock(prods, order.lines)
  ELSE prods

\* get_order_by_id raises 404 for an id with no row
OrderNotFound(op, order_id, arg) ==
  /\ order_id \notin DOMAIN orders
  /\ last' = Call(op, FALSE, "not_found", order_id, arg)
  /\ UNCHANGED <<products, orders, next_order_id, now, sessions, others>>

\* OrderService.update_order; new_status = Unset is a body without status
UpdateOrder(order_id, new_status) ==
  \/ OrderNotFound("update_order", order_id, new_status)
  \/ /\ order_id \in DOMAIN orders
     /\ IF new_status = Unset
        THEN UNCHANGED <<products, orders>>
        ELSE /\ orders' = [orders EXCEPT
                             ![order_id] =
                               IF new_status = CANCELED /\ @.canceled_at = NULL
                               THEN Restored(UpdatedOrder(@, new_status, now))
                               ELSE UpdatedOrder(@, new_status, now)]
             /\ products' = UpdatedOrderProducts(products, orders[order_id], new_status)
             /\ StockBounded(products')
     /\ last' = Call("update_order", TRUE, "", order_id, new_status)
     /\ UNCHANGED <<next_order_id, now, sessions, others>>

\* a cancel_order that leaves canceled_at alone
CanceledOrderNoStamp(order, t) == [order EXCEPT !.status = CANCELED]

\* the order row cancel_order writes at time t
CanceledOrder(order, t) ==
  [order EXCEPT !.status = CANCELED, !.canceled_at = t]

\* a cancel_order that only refuses an order already canceled
CannotCancelOnlyCanceled(order) == order.status = CANCELED

\* cancel_order raises for an order that is delivered or canceled
CannotCancel(order) == order.status \in {DELIVERED, CANCELED}

\* OrderService.cancel_order
CancelOrder(order_id) ==
  \/ OrderNotFound("cancel_order", order_id, "")
  \/ /\ order_id \in DOMAIN orders
     /\ IF CannotCancel(orders[order_id])
        THEN /\ last' = Call("cancel_order", FALSE, "cannot_cancel", order_id, "")
             /\ UNCHANGED <<products, orders>>
        ELSE /\ orders' = [orders EXCEPT ![order_id] = Restored(CanceledOrder(@, now))]
             /\ products' = _restore_order_stock(products, orders[order_id].lines)
             /\ StockBounded(products')
             /\ last' = Call("cancel_order", TRUE, "", order_id, "")
     /\ UNCHANGED <<next_order_id, now, sessions, others>>

\* the flush of db.delete(order).  Order.products has no delete cascade, so
\* the unit of work detaches every line of the order by writing NULL to
\* order_products.order_id, a column declared Mapped[int] (NOT NULL): with
\* one line or more the commit raises IntegrityError.
DeleteRaises(order) == order.lines # <<>>

\* OrderService.delete_order.  The restored stock and the delete are pending
\* in the session until db.commit(); when the commit raises, get_db closes
\* the session and nothing of the call is written.
DeleteOrder(order_id) ==
  \/ OrderNotFound("delete_order", order_id, "")
  \/ /\ order_id \in DOMAIN orders
     /\ IF DeleteRaises(orders[order_id])
        THEN /\ last' = Call("delete_order", FALSE, "integrity_error", order_id, "")
             /\ UNCHANGED <<products, orders>>
        ELSE /\ products' = IF orders[order_id].status \notin {DELIVERED, CANCELED}
                            THEN _restore_order_stock(products, orders[order_id].lines)
                            ELSE products
             /\ StockBounded(products')
             /\ orders' = [o \in DOMAIN orders \ {order_id} |-> orders[o]]
             /\ last' = Call("delete_order", TRUE, "", order_id, "")
     /\ UNCHANGED <<next_order_id, now, sessions, others>>

\* ProductService.update_stock raises: subtract below zero, unknown operation
StockError(stock, quantity, operation) ==
  IF operation = "set" THEN FALSE
  ELSE IF operation = "add" THEN FALSE
  ELSE IF operation = "subtract" THEN stock - quantity < 0
  ELSE TRUE

\* ProductService.update_stock: the stock it writes when it does not raise
NewStock(stock, quantity, operation) ==
  IF operation = "set" THEN quantity
  ELSE IF operation = "add" THEN stock + quantity
  ELSE stock - quantity

\* an operation that is none of 'set', 'add', 'subtract'
OtherOperation == "multiply"

\* requests to the three stock endpoints: PATCH stock (set), stock/increment
\* (add), stock/decrement (subtract), with any integer in the query
StockRequests == [operation : {"set", "add", "subtract"}, quantity : -1..MaxStock]

\* a query validation that lets an amount of zero through
QueryErrorNegative(quantity, operation) == quantity < 0

\* the query validation of the endpoints: stock ge=0, amount gt=0
QueryError(quantity, operation) ==
  IF operation = "set" THEN ~(quantity >= 0) ELSE ~(quantity > 0)

\* the request of a stock adjustment
StockRequest(product_id, quantity, operation) ==
  [product_id |-> product_id, operation |-> operation, quantity |-> quantity]

\* ProductService.update_stock
UpdateStock(product_id, quantity, operation) ==
  /\ IF StockError(products[product_id].stock, quantity, operation)
     THEN /\ last' = Call("update_stock", FALSE, "bad_request", 0,
                          StockRequest(product_id, quantity, operation))
          /\ UNCHANGED products
     ELSE /\ products' = [products EXCEPT ![product_id].stock =
                            NewStock(@, quantity, operation)]
          /\ StockBounded(products')
          /\ last' = Call("update_stock", TRUE, "", 0,
                          StockRequest(product_id, quantity, operation))
  /\ UNCHANGED <<orders, next_order_id, now, sessions, others>>

\* update_product_stock, increment_product_stock, decrement_product_stock:
\* a query that fails validation is answered 422 before the service is called
StockEndpoint(product_id, quantity, operation) ==
  IF QueryError(quantity, operation)
  THEN /\ last' = Call("update_stock", FALSE, "validation_error", 0,
                       StockRequest(product_id, quantity, operation))
       /\ UNCHANGED <<products, orders, next_order_id, now, sessions, others>>
  ELSE UpdateStock(product_id, quantity, operation)

\* a body that names no field
NoField == [set |-> FALSE, value |-> 0]

EmptyUpdate ==
  [price |-> NoField, discount_price |-> NoField, discount_end_date |-> NoField,
   stock |-> NoField, is_active |-> [set |-> FALSE, value |-> FALSE],
   production_cost |-> NoField, category_id |-> NoField]

\* ProductUpdate bodies that name is_active
ProductUpdateActive ==
  {[EmptyUpdate EXCEPT !.is_active = [set |-> TRUE, value |-> v]] : v \in BOOLEAN}

\* ProductUpdate bodies that name one pricing field (price > 0, discount_price > 0 or null)
ProductUpdatePricing ==
  {[EmptyUpdate EXCEPT !.price = [set |-> TRUE, value |-> v]] : v \in Prices}
    \cup {[EmptyUpdate EXCEPT !.discount_price = [set |-> TRUE, value |-> v]] :
            v \in Prices \cup {NULL}}
    \cup {[EmptyUpdate EXCEPT !.discount_end_date = [set |-> TRUE, value |-> v]] :
            v \in Times \cup {NULL}}

\* model_dump(exclude_unset=True): only the fields of the body are written
Patched(old, field) == IF field.set THEN field.value ELSE old

\* ProductService.update_product: setattr for every field of the body
\* ProductUpdate bodies that set production_cost alone
ProductUpdateCost ==
  {[EmptyUpdate EXCEPT !.production_cost = [set |-> TRUE, value |-> v]] : v \in Costs}

\* ProductUpdate bodies that set category_id alone; null is sent as NULL
ProductUpdateCategory ==
  {[EmptyUpdate EXCEPT !.category_id = [set |-> TRUE, value |-> v]] :
     v \in CategoryIds \cup {NULL}}

UpdateProduct(product_id, product_data) ==
  IF product_id \notin DOMAIN products
  THEN /\ last' = Call("update_product", FALSE, "not_found", 0, "")
       /\ UNCHANGED <<products, orders, next_order_id, now, sessions, others>>
  ELSE IF product_data.category_id.set /\ product_data.category_id.value \notin categories
  THEN /\ last' = Call("update_product", FALSE, "category_not_found", 0, "")
       /\ UNCHANGED <<products, orders, next_order_id, now, sessions, others>>
  ELSE
  /\ products' = [products EXCEPT ![product_id] =
       [price             |-> Patched(@.price, product_data.price),
        discount_price    |-> Patched(@.discount_price, product_data.discount_price),
        discount_end_date |-> Patched(@.discount_end_date, product_data.discount_end_date),
        stock             |-> Patched(@.stock, product_data.stock),
        is_active         |-> Patched(@.is_active, product_data.is_active),
        production_cost   |-> Patched(@.production_cost, product_data.production_cost),
        category_id       |-> Patched(@.category_id, product_data.category_id),
        store_id          |-> @.store_id]]
  /\ last' = Call("update_product", TRUE, "", 0, "")
  /\ UNCHANGED <<orders, next_order_id, now, sessions, others>>

\* the primary key the database gives to a new row of a table: one more than
\* the largest key in use
NewId(table) ==
  IF DOMAIN table = {} THEN 1
  ELSE 1 + CHOOSE i \in DOMAIN table : \A j \in DOMAIN table : j <= i

\* a table without the row of key id
Without(table, id) == [i \in DOMAIN table \ {id} |-> table[i]]

\* a table with one more row
With(table, id, row) ==
  [i \in DOMAIN table \cup {id} |-> IF i = id THEN row ELSE table[i]]

\* ProductCreate bodies: the store and the category of the new product
ProductCreates == [store_id : StoreIds, category_id : CategoryIds \cup {NumCategories + 1}]

\* ProductService.create_product
CreateProduct(product_data) ==
  LET id == NewId(products)
      ok == product_data.store_id \in DOMAIN stores /\ product_data.category_id \in categories
  IN /\ id <= MaxProducts
     /\ products' =
          IF ok
          THEN With(products, id,
                    [NoRow EXCEPT !.price = 1, !.is_active = TRUE,
                                  !.store_id = product_data.store_id,
                                  !.category_id = product_data.category_id])
          ELSE products
     /\ last' = Call("create_product", ok,
                     IF product_data.store_id \notin DOMAIN stores THEN "store_not_found"
                     ELSE IF ok THEN "" ELSE "category_not_found",
                     0, product_data)
     /\ UNCHANGED <<orders, next_order_id, now, sessions, others>>

\* order_products.product_id is NOT NULL: the ORM empties it for the lines of
\* a deleted product and the commit raises
ProductDeleteRaises(product_id) ==
  \E o \in DOMAIN orders : \E k \in 1..Len(orders[o].lines) :
    orders[o].lines[k].product_id = product_id

\* ProductService.delete_product
DeleteProduct(product_id) ==
  LET found == product_id \in DOMAIN products
      ok == found /\ ~ProductDeleteRaises(product_id)
  IN /\ products' = IF ok THEN Without(products, product_id) ELSE products
     /\ last' = Call("delete_product", ok,
                     IF ~found THEN "not_found" ELSE IF ok THEN "" ELSE "integrity_error",
                     0, product_id)
     /\ UNCHANGED <<orders, next_order_id, now, sessions, others>>

ProductCountNone(prods, category_id) == 0

\* func.count(Product.id) of the products of a category
ProductCount(prods, category_id) ==
  Cardinality({p \in DOMAIN prods : prods[p].category_id = category_id})

\* CategoryService.delete_category
DeleteCategory(category_id) ==
  LET found == category_id \in categories
      ok == found /\ ~(ProductCount(products, category_id) > 0)
  IN /\ categories' = IF ok THEN categories \ {category_id} ELSE categories
     /\ last' = Call("delete_category", ok,
                     IF ~found THEN "not_found" ELSE IF ok THEN "" ELSE "category_has_products",
                     0, category_id)
     /\ UNCHANGED <<products, orders, next_order_id, now, sessions,
                    stores, reviews, messages, active_connections, online_users>>

\* CategoryService.move_products_to_category; the response carries the number
\* of products moved
MoveProductsToCategory(source_category_id, target_category_id) ==
  LET same == source_category_id = target_category_id
      ok == /\ ~same
            /\ source_category_id \in categories
            /\ target_category_id \in categories
  IN /\ products' =
          IF ok
          THEN [p \in DOMAIN products |->
                  IF products[p].category_id = source_category_id
                  THEN [products[p] EXCEPT !.category_id = target_category_id]
                  ELSE products[p]]
          ELSE products
     /\ last' = [Call("move_products_to_category", ok,
                      IF same THEN "same_category" ELSE IF ok THEN "" ELSE "not_found",
                      0, <<source_category_id, target_category_id>>)
                  EXCEPT !.detail = IF ok THEN ProductCount(products, source_category_id)
                                    ELSE NULL]
     /\ UNCHANGED <<orders, next_order_id, now, sessions, others>>

\* ------------------------------------- create_order, statement by statement
\* Each request runs in its own session (get_db).  A session sees the rows
\* other sessions have committed; a row it has loaded stays in its identity
\* map as loaded; its writes reach the tables at commit.

\* the request enters create_order
Begin(s, items, customer_id) ==
  /\ sessions[s].pc = "idle"
  /\ sessions' = [sessions EXCEPT ![s] =
       [@ EXCEPT !.pc = "validate", !.items = items, !.customer_id = customer_id, !.i = 1]]
  /\ UNCHANGED <<products, orders, next_order_id, now, last, others>>

\* the rows of the session's identity map
Rows(s) == [p \in ProductIds |-> sessions[s].cache[p].row]

\* the identity map after the query for product p
Loaded(s, p) ==
  IF sessions[s].cache[p].loaded THEN sessions[s].cache
  ELSE [sessions[s].cache EXCEPT ![p] = [loaded |-> TRUE, row |-> products[p]]]

\* one pass of the validation loop: query the product of line i and check it
Validate(s) ==
  /\ sessions[s].pc = "validate"
  /\ LET item  == sessions[s].items[sessions[s].i]
         cache == IF item.product_id \in ProductIds
                  THEN Loaded(s, item.product_id) ELSE sessions[s].cache
         rows  == [p \in ProductIds |-> cache[p].row]
         err   == ValidateLine(rows, item)
     IN sessions' = [sessions EXCEPT ![s] =
          IF err # "ok"
          THEN [@ EXCEPT !.pc = "done", !.result = err]
          ELSE [@ EXCEPT !.cache = cache,
                         !.i = @ + 1,
                         !.pc = IF sessions[s].i = Len(sessions[s].items)
                                THEN "commit" ELSE "validate"]]
  /\ UNCHANGED <<products, orders, next_order_id, now, last, others>>

\* the products table after the session's commit: UPDATE products SET stock
\* for the rows the session changed
Committed(prods, cache, items) ==
  LET rows  == [p \in ProductIds |-> cache[p].row]
      after == ReduceStock(rows, items)
  IN [p \in ProductIds |->
        IF cache[p].loaded THEN [prods[p] EXCEPT !.stock = after[p].stock]
        ELSE prods[p]]

\* insert the order and its lines, reduce the stock of the loaded rows, commit
Commit(s) ==
  /\ sessions[s].pc = "commit"
  /\ orders' = orders @@ (next_order_id :> NewOrder(Rows(s), sessions[s].items, now, sessions[s].customer_id))
  /\ next_order_id' = next_order_id + 1
  /\ products' = Committed(products, sessions[s].cache, sessions[s].items)
  /\ sessions' = [sessions EXCEPT ![s] = [@ EXCEPT !.pc = "done", !.result = "ok"]]
  /\ UNCHANGED <<now, last, others>>

\* ------------------------------------------------------------- analytics

\* timedelta(days=n) on the clock
Days(n) == n * TicksPerDay

\* a period start that takes any unknown period for a month
PeriodStartDefaultMonth(period, end_date, t) ==
  LET e == IF end_date = NULL THEN t ELSE end_date
  IN IF period = "week" THEN e - Days(7)
     ELSE IF period = "quarter" THEN e - Days(90)
     ELSE IF period = "year" THEN e - Days(365)
     ELSE e - Days(30)

\* OrderService._get_period_start_date, called at time t
_get_period_start_date(period, end_date, t) ==
  LET e == IF end_date = NULL THEN t ELSE end_date
  IN IF period = "week" THEN e - Days(7)
     ELSE IF period = "month" THEN e - Days(30)
     ELSE IF period = "quarter" THEN e - Days(90)
     ELSE IF period = "year" THEN e - Days(365)
     ELSE e - Days(7)

\* "Set date range" of the analytics getters, called at time t:
\* if not end_date: end_date = utcnow(); if not start_date: start of the period
DateRange(start_date, end_date, period, t) ==
  LET e == IF end_date = NULL THEN t ELSE end_date
  IN [start_date |-> IF start_date = NULL
                     THEN _get_period_start_date(period, e, t)
                     ELSE start_date,
      end_date   |-> e]

\* the rows of OrderProduct joined to Order and Product with
\* Product.store_id == store_id: <<order id, line number>>
StoreLines(ords, prods, store_id) ==
  {r \in UNION {{<<o, k>> : k \in 1..Len(ords[o].lines)} : o \in DOMAIN ords} :
     prods[ords[r[1]].lines[r[2]].product_id].store_id = store_id}

\* func.sum over the rows of a query, f[r] the summed expression of row r
RECURSIVE Sum(_)
Sum(f) ==
  IF DOMAIN f = {} THEN 0
  ELSE LET r == CHOOSE x \in DOMAIN f : TRUE
       IN f[r] + Sum([x \in DOMAIN f \ {r} |-> f[x]])

\* a timestamp column inside [start_date, end_date]; NULL compares as unknown
Within(column, range) ==
  column # NULL /\ column >= range.start_date /\ column <= range.end_date

\* lines of the store's products in orders that were delivered inside the
\* range, whatever their status is now
StampedLines(ords, prods, store_id, range) ==
  {r \in StoreLines(ords, prods, store_id) : Within(ords[r[1]].delivered_at, range)}

\* the rows of the income and revenue queries: lines of the store's products
\* in orders that are delivered, delivered_at inside the range
DeliveredLines(ords, prods, store_id, range) ==
  {r \in StoreLines(ords, prods, store_id) :
     ords[r[1]].status = DELIVERED /\ Within(ords[r[1]].delivered_at, range)}

\* round(n / d, 0) for d > 0: the nearest integer, a tie going to the even one
Round(n, d) ==
  LET q == n \div d
      r == n % d
  IN IF 2 * r < d THEN q
     ELSE IF 2 * r > d THEN q + 1
     ELSE IF q % 2 = 0 THEN q ELSE q + 1

\* OrderService.get_total_revenue, called at time t.  profit_margin_percent
\* is round(profit_margin, 2), held here in hundredths of a percent.
get_total_revenue(ords, prods, store_id, start_date, end_date, period, t) ==
  LET range == DateRange(start_date, end_date, period, t)
      rows == DeliveredLines(ords, prods, store_id, range)
      income == Sum([r \in rows |->
                       ords[r[1]].lines[r[2]].quantity * ords[r[1]].lines[r[2]].unit_price])
      costs == Sum([r \in rows |->
                      ords[r[1]].lines[r[2]].quantity
                        * prods[ords[r[1]].lines[r[2]].product_id].production_cost])
      revenue == income - costs
  IN [total_revenue |-> revenue,
      total_income  |-> income,
      total_costs   |-> costs,
      profit_margin_percent |->
        IF income > 0 THEN Round(revenue * 100 * 100, income) ELSE 0,
      start_date    |-> range.start_date,
      end_date      |-> range.end_date]

\* the orders of a query that joins Order to OrderProduct and Product with
\* Product.store_id == store_id, counted distinct by Order.id
StoreOrders(ords, prods, store_id) ==
  {r[1] : r \in StoreLines(ords, prods, store_id)}

\* a conversion rate over every order of the window
ConversionOfAll(converted, completed, total) ==
  IF total > 0 THEN Round(converted * 100 * 100, total) ELSE 0

\* conversion_rate: converted_orders / completed_journeys * 100, rounded to two
\* decimals, in hundredths of a percent
\* OrderService.get_returned_orders, called at time t
get_returned_orders(ords, prods, store_id, start_date, end_date, period, t) ==
  LET range == DateRange(start_date, end_date, period, t)
      canceled == {r \in StoreLines(ords, prods, store_id) :
                     /\ ords[r[1]].status = CANCELED
                     /\ Within(ords[r[1]].canceled_at, range)}
      returned_count == Cardinality({r[1] : r \in canceled})
      lost_revenue == Sum([r \in canceled |->
                             ords[r[1]].lines[r[2]].quantity * ords[r[1]].lines[r[2]].unit_price])
      total_orders == Cardinality({o \in StoreOrders(ords, prods, store_id) :
                                     Within(ords[o].created_at, range)})
  IN [returned_orders_count |-> returned_count,
      total_orders          |-> total_orders,
      return_rate_percent   |->
        IF total_orders > 0 THEN Round(returned_count * 100 * 100, total_orders) ELSE 0,
      lost_revenue          |-> lost_revenue,
      start_date            |-> range.start_date,
      end_date              |-> range.end_date]

\* OrderService.get_fulfilled_orders, called at time t;
\* average_fulfillment_days is held in tenths of a day
get_fulfilled_orders(ords, prods, store_id, start_date, end_date, period, t) ==
  LET range == DateRange(start_date, end_date, period, t)
      delivered == DeliveredLines(ords, prods, store_id, range)
      fulfilled_count == Cardinality({r[1] : r \in delivered})
      total_orders == Cardinality({o \in StoreOrders(ords, prods, store_id) :
                                     Within(ords[o].created_at, range)})
      elapsed == Sum([r \in delivered |->
                        ords[r[1]].delivered_at - ords[r[1]].created_at])
  IN [fulfilled_orders_count   |-> fulfilled_count,
      total_orders             |-> total_orders,
      fulfillment_rate_percent |->
        IF total_orders > 0 THEN Round(fulfilled_count * 100 * 100, total_orders) ELSE 0,
      average_fulfillment_days |->
        IF elapsed # 0 THEN Round(elapsed * 10, Cardinality(delivered) * TicksPerDay) ELSE 0,
      start_date               |-> range.start_date,
      end_date                 |-> range.end_date]

ConversionOfCompleted(converted, completed, total) ==
  IF completed > 0 THEN Round(converted * 100 * 100, completed) ELSE 0

\* OrderService.get_conversion_rate, called at time t
get_conversion_rate(ords, prods, store_id, start_date, end_date, period, t) ==
  LET range == DateRange(start_date, end_date, period, t)
      created == {o \in StoreOrders(ords, prods, store_id) :
                    Within(ords[o].created_at, range)}
      converted_orders == Cardinality({o \in created : ords[o].status = DELIVERED})
      non_converted_orders == Cardinality({o \in created : ords[o].status = CANCELED})
      in_progress_orders ==
        Cardinality({o \in created : ords[o].status \notin {DELIVERED, CANCELED}})
      total_orders == converted_orders + non_converted_orders + in_progress_orders
      completed_journeys == converted_orders + non_converted_orders
      total_customers == Cardinality({ords[o].customer_id : o \in created})
      converted_customers ==
        Cardinality({ords[o].customer_id :
                       o \in {x \in StoreOrders(ords, prods, store_id) :
                                 /\ ords[x].status = DELIVERED
                                 /\ Within(ords[x].delivered_at, range)}})
  IN [conversion_rate_percent |->
        ConversionOfCompleted(converted_orders, completed_journeys, total_orders),
      total_conversion_rate_percent |->
        IF total_orders > 0 THEN Round(converted_orders * 100 * 100, total_orders) ELSE 0,
      customer_conversion_rate_percent |->
        IF total_customers > 0
        THEN Round(converted_customers * 100 * 100, total_customers) ELSE 0,
      converted_orders     |-> converted_orders,
      non_converted_orders |-> non_converted_orders,
      in_progress_orders   |-> in_progress_orders,
      total_orders         |-> total_orders,
      completed_journeys   |-> completed_journeys,
      start_date           |-> range.start_date,
      end_date             |-> range.end_date]

\* the rows of the growth queries: Order joined to OrderProduct and Product,
\* the store's products, status != CANCELED, created_at inside the range.
\* An order is in the result once for each of its lines.
GrowthRows(ords, prods, store_id, range) ==
  {r \in StoreLines(ords, prods, store_id) :
     ords[r[1]].status # CANCELED /\ Within(ords[r[1]].created_at, range)}

\* what get_growth_metrics holds when it comes to the repeat_customers query,
\* called at time t: the two windows and the aggregates of each.  func.avg is
\* held as the sum and the number of rows it divides by.
GrowthLocals(ords, prods, store_id, period, t) ==
  LET end_date == t
      start_date == _get_period_start_date(period, end_date, t)
      prev_end_date == start_date - Days(1)
      prev_start_date == _get_period_start_date(period, prev_end_date, t)
      current == GrowthRows(ords, prods, store_id,
                            [start_date |-> start_date, end_date |-> end_date])
      previous == GrowthRows(ords, prods, store_id,
                             [start_date |-> prev_start_date, end_date |-> prev_end_date])
  IN [start_date         |-> start_date,
      end_date           |-> end_date,
      prev_start_date    |-> prev_start_date,
      prev_end_date      |-> prev_end_date,
      current_sales      |-> Sum([r \in current |-> ords[r[1]].total_amount]),
      previous_sales     |-> Sum([r \in previous |-> ords[r[1]].total_amount]),
      current_customers  |-> Cardinality({ords[r[1]].customer_id : r \in current}),
      previous_customers |-> Cardinality({ords[r[1]].customer_id : r \in previous}),
      current_aov        |-> [sum  |-> Sum([r \in current |-> ords[r[1]].total_amount]),
                              rows |-> Cardinality(current)],
      previous_aov       |-> [sum  |-> Sum([r \in previous |-> ords[r[1]].total_amount]),
                              rows |-> Cardinality(previous)]]

UserIds == CustomerIds \cup StoreOwnerIds

\* User.user_type
user_type(user_id) == IF user_id \in StoreOwnerIds THEN "store" ELSE "customer"

StoreNames == {"mart", "Mart", "shop"}

\* func.lower(name)
Lower(name) == IF name = "Mart" THEN "mart" ELSE name

\* StoreCreate bodies: the name and the owner_id field of the body
StoreCreates == [name : StoreNames, owner_id : StoreOwnerIds]

\* StoreService.create_store, called for the authenticated user owner
CreateStore(store_data, owner) ==
  LET id == NewId(stores)
      forbidden == user_type(owner) # "store"
      existing_store == \E i \in DOMAIN stores : Lower(stores[i].name) = Lower(store_data.name)
      ok == ~forbidden /\ ~existing_store
  IN /\ id <= NumStores + 1
     /\ stores' = IF ok THEN With(stores, id, [name |-> store_data.name, owner_id |-> owner])
                  ELSE stores
     /\ last' = [Call("create_store", ok,
                      IF forbidden THEN "forbidden"
                      ELSE IF existing_store THEN "name_exists" ELSE "",
                      0, store_data)
                  EXCEPT !.detail = [user |-> owner, id |-> IF ok THEN id ELSE NULL]]
     /\ UNCHANGED <<products, orders, next_order_id, now, sessions,
                    categories, reviews, messages, active_connections, online_users>>

\* StoreService.update_store with a StoreUpdate body that sets the name
UpdateStore(store_id, name, user) ==
  LET found == store_id \in DOMAIN stores
      owned == found /\ stores[store_id].owner_id = user
      existing_store ==
        /\ owned /\ name # stores[store_id].name
        /\ \E i \in DOMAIN stores : Lower(stores[i].name) = Lower(name)
      ok == owned /\ ~existing_store
  IN /\ stores' = IF ok THEN [stores EXCEPT ![store_id].name = name] ELSE stores
     /\ last' = [Call("update_store", ok,
                      IF ~found THEN "not_found"
                      ELSE IF ~owned THEN "forbidden"
                      ELSE IF existing_store THEN "name_exists" ELSE "",
                      0, name)
                  EXCEPT !.detail = [user |-> user, id |-> store_id]]
     /\ UNCHANGED <<products, orders, next_order_id, now, sessions,
                    categories, reviews, messages, active_connections, online_users>>

\* StoreService.delete_store
DeleteStore(store_id, user) ==
  LET found == store_id \in DOMAIN stores
      owned == found /\ stores[store_id].owner_id = user
      product_count == Cardinality({p \in DOMAIN products : products[p].store_id = store_id})
      ok == owned /\ ~(product_count > 0)
  IN /\ stores' = IF ok THEN Without(stores, store_id) ELSE stores
     /\ last' = [Call("delete_store", ok,
                      IF ~found THEN "not_found"
                      ELSE IF ~owned THEN "forbidden"
                      ELSE IF ok THEN "" ELSE "store_has_products",
                      0, store_id)
                  EXCEPT !.detail = [user |-> user, id |-> store_id]]
     /\ UNCHANGED <<products, orders, next_order_id, now, sessions,
                    categories, reviews, messages, active_connections, online_users>>

Ratings == 1..MaxRating

\* ReviewCreate bodies
ReviewCreates == [product_id : 1..MaxProducts, rating : Ratings]

ExistingReviewNone(revs, customer_id, product_id) == {}

\* the query for existing_review in create_review: the reviews of the
\* customer for the product
ExistingReview(revs, customer_id, product_id) ==
  {i \in DOMAIN revs : revs[i].customer_id = customer_id /\ revs[i].product_id = product_id}

\* UniqueConstraint('customer_id', 'product_id'): the commit of a second row
\* with the same pair raises
UniqueCustomerProduct(revs, row) ==
  \A i \in DOMAIN revs :
    ~(revs[i].customer_id = row.customer_id /\ revs[i].product_id = row.product_id)

\* ReviewService.create_review
CreateReview(review_data, customer_id) ==
  LET id == NewId(reviews)
      review == [rating |-> review_data.rating, customer_id |-> customer_id,
                 product_id |-> review_data.product_id]
      err == IF review_data.product_id \notin DOMAIN products THEN "not_found"
             ELSE IF ExistingReview(reviews, customer_id, review_data.product_id) # {}
                  THEN "already_reviewed"
             ELSE IF ~UniqueCustomerProduct(reviews, review) THEN "integrity_error"
             ELSE ""
  IN /\ id <= MaxReviews
     /\ reviews' = IF err = "" THEN With(reviews, id, review) ELSE reviews
     /\ last' = [Call("create_review", err = "", err, 0, review_data)
                  EXCEPT !.detail = [user |-> customer_id, id |-> IF err = "" THEN id ELSE NULL]]
     /\ UNCHANGED <<products, orders, next_order_id, now, sessions,
                    categories, stores, messages, active_connections, online_users>>

\* ReviewService.update_review with a ReviewUpdate body that sets the rating
UpdateReview(review_id, rating, customer_id) ==
  LET found == review_id \in DOMAIN reviews
      ok == found /\ reviews[review_id].customer_id = customer_id
  IN /\ reviews' = IF ok THEN [reviews EXCEPT ![review_id].rating = rating] ELSE reviews
     /\ last' = [Call("update_review", ok,
                      IF ~found THEN "not_found" ELSE IF ok THEN "" ELSE "forbidden",
                      0, rating)
                  EXCEPT !.detail = [user |-> customer_id, id |-> review_id]]
     /\ UNCHANGED <<products, orders, next_order_id, now, sessions,
                    categories, stores, messages, active_connections, online_users>>

\* ReviewService.delete_review
DeleteReview(review_id, customer_id) ==
  LET found == review_id \in DOMAIN reviews
      ok == found /\ reviews[review_id].customer_id = customer_id
  IN /\ reviews' = IF ok THEN Without(reviews, review_id) ELSE reviews
     /\ last' = [Call("delete_review", ok,
                      IF ~found THEN "not_found" ELSE IF ok THEN "" ELSE "forbidden",
                      0, review_id)
                  EXCEPT !.detail = [user |-> customer_id, id |-> review_id]]
     /\ UNCHANGED <<products, orders, next_order_id, now, sessions,
                    categories, stores, messages, active_connections, online_users>>

\* MessageStatus
SENT == "sent"
MSG_DELIVERED == "delivered"
READ == "read"

\* a new ChatMessage row
NewMessage(sender_id, store_id, status) ==
  [sender_id |-> sender_id, store_id |-> store_id, status |-> status,
   read_at |-> NULL, is_deleted |-> FALSE]

\* ChatService.create_message
CreateMessage(store_id, sender_id) ==
  LET ok == store_id \in DOMAIN stores
  IN /\ Len(messages) < MaxMessages
     /\ messages' = IF ok THEN Append(messages, NewMessage(sender_id, store_id, SENT))
                    ELSE messages
     /\ last' = Call("create_message", ok, IF ok THEN "" ELSE "store_not_found",
                     0, <<sender_id, store_id>>)
     /\ UNCHANGED <<products, orders, next_order_id, now, sessions,
                    categories, stores, reviews, active_connections, online_users>>

\* ChatService.create_system_message
CreateSystemMessage(user_id, store_id) ==
  /\ Len(messages) < MaxMessages
  /\ messages' = Append(messages, NewMessage(user_id, store_id, MSG_DELIVERED))
  /\ last' = Call("create_system_message", TRUE, "", 0, <<user_id, store_id>>)
  /\ UNCHANGED <<products, orders, next_order_id, now, sessions,
                 categories, stores, reviews, active_connections, online_users>>

\* the rows an UPDATE ... SET status = READ, read_at = utcnow() changes
MarkRead(msgs, ids, t) ==
  [i \in DOMAIN msgs |->
     IF i \in ids THEN [msgs[i] EXCEPT !.status = READ, !.read_at = t] ELSE msgs[i]]

\* ChatService.mark_as_read
MarkAsRead(message_ids, user_id) ==
  LET updated == {i \in DOMAIN messages :
                    /\ i \in message_ids
                    /\ messages[i].sender_id = user_id
                    /\ messages[i].status # READ}
  IN /\ messages' = MarkRead(messages, updated, now)
     /\ last' = [Call("mark_as_read", TRUE, "", 0, message_ids)
                  EXCEPT !.detail = Cardinality(updated)]
     /\ UNCHANGED <<products, orders, next_order_id, now, sessions,
                    categories, stores, reviews, active_connections, online_users>>

ConversationUnreadWithDeleted(msgs, user_id, store_id) ==
  {i \in DOMAIN msgs :
     /\ msgs[i].sender_id = user_id
     /\ msgs[i].store_id = store_id
     /\ msgs[i].status # READ}

\* the filter of mark_conversation_as_read
ConversationUnread(msgs, user_id, store_id) ==
  {i \in DOMAIN msgs :
     /\ msgs[i].sender_id = user_id
     /\ msgs[i].store_id = store_id
     /\ msgs[i].status # READ
     /\ msgs[i].is_deleted = FALSE}

\* ChatService.mark_conversation_as_read
MarkConversationAsRead(user_id, store_id) ==
  LET updated == ConversationUnread(messages, user_id, store_id)
  IN /\ messages' = MarkRead(messages, updated, now)
     /\ last' = [Call("mark_conversation_as_read", TRUE, "", 0, <<user_id, store_id>>)
                  EXCEPT !.detail = Cardinality(updated)]
     /\ UNCHANGED <<products, orders, next_order_id, now, sessions,
                    categories, stores, reviews, active_connections, online_users>>

\* ChatService.get_unread_count; without a store_id it counts over all stores
get_unread_count(msgs, user_id, store_id) ==
  Cardinality({i \in DOMAIN msgs :
                 /\ msgs[i].sender_id = user_id
                 /\ msgs[i].status # READ
                 /\ msgs[i].is_deleted = FALSE
                 /\ (store_id # NULL) => msgs[i].store_id = store_id})

GetUnreadCount(user_id, store_id) ==
  /\ last' = [Call("get_unread_count", TRUE, "", 0, <<user_id, store_id>>)
               EXCEPT !.detail = get_unread_count(messages, user_id, store_id)]
  /\ UNCHANGED <<products, orders, next_order_id, now, sessions, others>>

\* ChatService.delete_message (soft delete)
DeleteMessage(message_id, user_id) ==
  LET ok == message_id \in DOMAIN messages /\ messages[message_id].sender_id = user_id
  IN /\ messages' = IF ok THEN [messages EXCEPT ![message_id].is_deleted = TRUE]
                    ELSE messages
     /\ last' = Call("delete_message", ok, IF ok THEN "" ELSE "not_found", 0, message_id)
     /\ UNCHANGED <<products, orders, next_order_id, now, sessions,
                    categories, stores, reviews, active_connections, online_users>>

\* the WebSocket objects
WebSockets == 1..NumSockets

\* ConnectionManager.connect; accepted is FALSE when websocket.accept() raises,
\* which is before the manager is touched
Connect(websocket, user_id, store_id, accepted) ==
  LET connections == IF user_id \in DOMAIN active_connections
                     THEN active_connections[user_id] ELSE <<>>
  IN /\ active_connections' =
          IF accepted
          THEN With(active_connections, user_id, With(connections, store_id, websocket))
          ELSE active_connections
     /\ online_users' = IF accepted THEN online_users \cup {user_id} ELSE online_users
     /\ last' = [Call("connect", accepted, IF accepted THEN "" ELSE "accept_failed",
                      0, <<user_id, store_id>>)
                  EXCEPT !.detail = websocket]
     /\ UNCHANGED <<products, orders, next_order_id, now, sessions,
                    categories, stores, reviews, messages>>

IsEmptyNever(connections) == FALSE

\* not self.active_connections[user_id]
IsEmpty(connections) == DOMAIN connections = {}

\* ConnectionManager.disconnect; the detail tells whether a connection was removed
Disconnect(user_id, store_id) ==
  LET known == user_id \in DOMAIN active_connections
      present == known /\ store_id \in DOMAIN active_connections[user_id]
      remaining == IF present THEN Without(active_connections[user_id], store_id)
                   ELSE active_connections[user_id]
  IN /\ active_connections' =
          IF ~known THEN active_connections
          ELSE IF IsEmpty(remaining) THEN Without(active_connections, user_id)
          ELSE [active_connections EXCEPT ![user_id] = remaining]
     /\ online_users' = IF known /\ IsEmpty(remaining) THEN online_users \ {user_id}
                        ELSE online_users
     /\ last' = [Call("disconnect", TRUE, "", 0, <<user_id, store_id>>)
                  EXCEPT !.detail = present]
     /\ UNCHANGED <<products, orders, next_order_id, now, sessions,
                    categories, stores, reviews, messages>>

\* ConnectionManager.is_user_online
is_user_online(user_id) == user_id \in online_users

\* func.date(column): the day of a timestamp
Date(t) == t \div TicksPerDay

\* OrderService.get_sales_performance, called at time t.  daily_sales maps
\* each day that has rows to the sum of Order.total_amount over its rows.
get_sales_performance(ords, prods, store_id, start_date, end_date, t) ==
  LET e == IF end_date = NULL THEN t ELSE end_date
      range == [start_date |-> IF start_date = NULL THEN e - Days(30) ELSE start_date,
                end_date   |-> e]
      rows == GrowthRows(ords, prods, store_id, range)
      days == {Date(ords[r[1]].created_at) : r \in rows}
      daily_sales == [d \in days |->
                        Sum([r \in {x \in rows : Date(ords[x[1]].created_at) = d} |->
                               ords[r[1]].total_amount])]
  IN [daily_sales  |-> daily_sales,
      total_sales  |-> Sum(daily_sales),
      total_orders |-> Cardinality({r[1] : r \in rows}),
      start_date   |-> range.start_date,
      end_date     |-> range.end_date]

\* the repeat_customers query has func.count(func.distinct(Order.id)) > 1
\* among the conditions of filter(): an aggregate in the WHERE clause, which
\* SQLite ("misuse of aggregate") and PostgreSQL ("aggregate functions are not
\* allowed in WHERE") refuse whatever the tables hold
RepeatCustomersRaises == TRUE

\* (current - previous) / previous * 100 if previous > 0 else 0, rounded to one
\* decimal, in tenths of a percent
GrowthPercent(current, previous) ==
  IF previous > 0 THEN Round((current - previous) * 100 * 10, previous) ELSE 0

\* the same for two averages, each a sum over a number of rows (avg ... or 0)
GrowthPercentOfAvg(current, previous) ==
  IF previous.rows > 0 /\ previous.sum > 0
  THEN IF current.rows = 0
       THEN GrowthPercent(0, previous.sum)
       ELSE GrowthPercent(current.sum * previous.rows, previous.sum * current.rows)
  ELSE 0

\* the dictionary get_growth_metrics returns
GrowthReport(locals) ==
  [monthly_growth  |-> GrowthPercent(locals.current_sales, locals.previous_sales),
   customer_growth |-> GrowthPercent(locals.current_customers, locals.previous_customers),
   aov_growth      |-> GrowthPercentOfAvg(locals.current_aov, locals.previous_aov),
   locals          |-> locals]

\* OrderService.get_total_income, called at time t
get_total_income(ords, prods, store_id, start_date, end_date, period, t) ==
  LET range == DateRange(start_date, end_date, period, t)
      rows == DeliveredLines(ords, prods, store_id, range)
  IN [total_income |-> Sum([r \in rows |->
                              ords[r[1]].lines[r[2]].quantity
                                * ords[r[1]].lines[r[2]].unit_price]),
      start_date   |-> range.start_date,
      end_date     |-> range.end_date]

\* the query of an analytics endpoint
Query(store_id, start_date, end_date, period) ==
  [store_id |-> store_id, start_date |-> start_date,
   end_date |-> end_date, period |-> period]

\* get_store_income -> OrderService.get_total_income
GetTotalIncome(store_id, start_date, end_date, period) ==
  /\ last' = [Call("get_total_income", TRUE, "", 0,
                   Query(store_id, start_date, end_date, period))
               EXCEPT !.detail = get_total_income(orders, products, store_id,
                                                  start_date, end_date, period, now)]
  /\ UNCHANGED <<products, orders, next_order_id, now, sessions, others>>

\* get_store_revenue -> OrderService.get_total_revenue
GetTotalRevenue(store_id, start_date, end_date, period) ==
  /\ last' = [Call("get_total_revenue", TRUE, "", 0,
                   Query(store_id, start_date, end_date, period))
               EXCEPT !.detail = get_total_revenue(orders, products, store_id,
                                                   start_date, end_date, period, now)]
  /\ UNCHANGED <<products, orders, next_order_id, now, sessions, others>>

\* get_conversion_rate endpoint -> OrderService.get_conversion_rate
GetConversionRate(store_id, start_date, end_date, period) ==
  /\ last' = [Call("get_conversion_rate", TRUE, "", 0,
                   Query(store_id, start_date, end_date, period))
               EXCEPT !.detail = get_conversion_rate(orders, products, store_id,
                                                     start_date, end_date, period, now)]
  /\ UNCHANGED <<products, orders, next_order_id, now, sessions, others>>

\* get_growth_metrics endpoint -> OrderService.get_growth_metrics.  A call
\* that raises leaves in detail what the handler held when it stopped.
GetGrowthMetrics(store_id, period) ==
  /\ LET locals == GrowthLocals(orders, products, store_id, period, now)
     IN IF RepeatCustomersRaises
        THEN last' = [Call("get_growth_metrics", FALSE, "database_error", 0,
                          Query(store_id, NULL, NULL, period))
                      EXCEPT !.detail = [locals |-> locals]]
        ELSE last' = [Call("get_growth_metrics", TRUE, "", 0,
                          Query(store_id, NULL, NULL, period))
                      EXCEPT !.detail = GrowthReport(locals)]
  /\ UNCHANGED <<products, orders, next_order_id, now, sessions, others>>

\* get_sales_performance endpoint -> OrderService.get_sales_performance
GetSalesPerformance(store_id, start_date, end_date) ==
  /\ last' = [Call("get_sales_performance", TRUE, "", 0,
                   Query(store_id, start_date, end_date, "month"))
               EXCEPT !.detail = get_sales_performance(orders, products, store_id,
                                                       start_date, end_date, now)]
  /\ UNCHANGED <<products, orders, next_order_id, now, sessions, others>>

\* days pass between two requests
Elapse(ticks, horizon) ==
  /\ now + ticks <= horizon
  /\ now' = now + ticks
  /\ UNCHANGED <<products, orders, next_order_id, last, sessions, others>>

\* ------------------------------------------------------- specifications

Next ==
  \/ Tick
  \/ \E items \in OrderCreate, c \in CustomerIds : CreateOrder(items, c)
  \/ \E o \in OrderIds, st \in OrderStatus \cup {Unset} : UpdateOrder(o, st)
  \/ \E o \in OrderIds : CancelOrder(o)
  \/ \E o \in OrderIds : DeleteOrder(o)
  \/ \E p \in ProductIds, r \in StockRequests : StockEndpoint(p, r.quantity, r.operation)
  \/ \E p \in ProductIds, q \in 1..MaxStock : UpdateStock(p, q, OtherOperation)
  \/ \E p \in ProductIds, d \in ProductUpdateActive : UpdateProduct(p, d)

Spec == Init /\ [][Next]_vars

\* product prices change while orders are placed and move on
NextPricing ==
  \/ Tick
  \/ \E items \in OrderCreate, c \in CustomerIds : CreateOrder(items, c)
  \/ \E o \in OrderIds, st \in OrderStatus \cup {Unset} : UpdateOrder(o, st)
  \/ \E p \in ProductIds, d \in ProductUpdatePricing : UpdateProduct(p, d)

SpecPricing == Init /\ [][NextPricing]_vars

\* concurrent create_order requests
NextConcurrent ==
  \/ \E s \in SessionIds, items \in OrderCreate, c \in CustomerIds : Begin(s, items, c)
  \/ \E s \in SessionIds : Validate(s)
  \/ \E s \in SessionIds : Commit(s)

SpecConcurrent == Init /\ [][NextConcurrent]_vars

\* the income of a store is asked for, with every kind of date range, while
\* an order is placed and moves on
NextIncome ==
  \/ Tick
  \/ \E items \in OrderCreate, c \in CustomerIds : CreateOrder(items, c)
  \/ \E o \in OrderIds, st \in {SHIPPED, DELIVERED} : UpdateOrder(o, st)
  \/ \E store_id \in StoreIds, start_date \in Times \cup {NULL},
        end_date \in Times \cup {NULL}, period \in Periods :
       GetTotalIncome(store_id, start_date, end_date, period)

SpecIncome == Init /\ [][NextIncome]_vars

\* order ids of the analytics scenarios
AnalyticsOrderIds == 1..MaxAnalyticsOrders

\* the requests of the analytics scenarios: those that name products of the table
AnalyticsOrderCreate ==
  {items \in OrderCreate : \A k \in 1..Len(items) : items[k].product_id \in ProductIds}

\* the revenue of a store is asked for while orders are placed, delivered and
\* canceled
NextRevenue ==
  \/ Tick
  \/ \E items \in AnalyticsOrderCreate, c \in CustomerIds :
       CreateOrderUpTo(items, c, MaxAnalyticsOrders)
  \/ \E o \in AnalyticsOrderIds, st \in {DELIVERED, CANCELED} : UpdateOrder(o, st)
  \/ \E store_id \in StoreIds, start_date \in Times \cup {NULL},
        end_date \in Times \cup {NULL} :
       GetTotalRevenue(store_id, start_date, end_date, "week")

SpecRevenue == InitAnalytics /\ [][NextRevenue]_vars

\* Revenue reports of a fixed window while the store edits production costs.
NextCost ==
  \/ Tick
  \/ \E items \in AnalyticsOrderCreate, c \in CustomerIds :
       CreateOrderUpTo(items, c, MaxAnalyticsOrders)
  \/ \E o \in AnalyticsOrderIds : UpdateOrder(o, DELIVERED)
  \/ \E p \in ProductIds, product_data \in ProductUpdateCost :
       UpdateProduct(p, product_data)
  \/ \E store_id \in StoreIds : GetTotalRevenue(store_id, 0, MaxTime, "week")

SpecCost == InitAnalytics /\ [][NextCost]_vars

\* customers of the analytics scenarios
AnalyticsCustomerIds == 1..(NumCustomers + 1)

\* orders for one unit of a product
\* get_returned_orders endpoint -> OrderService.get_returned_orders
GetReturnedOrders(store_id, start_date, end_date, period) ==
  /\ last' = [Call("get_returned_orders", TRUE, "", 0,
                   Query(store_id, start_date, end_date, period))
               EXCEPT !.detail = get_returned_orders(orders, products, store_id,
                                                     start_date, end_date, period, now)]
  /\ UNCHANGED <<products, orders, next_order_id, now, sessions, others>>

\* get_fulfilled_orders endpoint -> OrderService.get_fulfilled_orders
GetFulfilledOrders(store_id, start_date, end_date, period) ==
  /\ last' = [Call("get_fulfilled_orders", TRUE, "", 0,
                   Query(store_id, start_date, end_date, period))
               EXCEPT !.detail = get_fulfilled_orders(orders, products, store_id,
                                                      start_date, end_date, period, now)]
  /\ UNCHANGED <<products, orders, next_order_id, now, sessions, others>>

OneUnit == {items \in AnalyticsOrderCreate : Len(items) = 1 /\ items[1].quantity = 1}

\* the conversion rate of a store is asked for while orders are placed,
\* delivered and canceled
NextConversion ==
  \/ Tick
  \/ \E items \in OneUnit, c \in CustomerIds :
       CreateOrderUpTo(items, c, MaxAnalyticsOrders + 1)
  \/ \E o \in 1..(MaxAnalyticsOrders + 1), st \in {DELIVERED, CANCELED} :
       UpdateOrder(o, st)
  \/ \E store_id \in StoreIds, start_date \in Times \cup {NULL} :
       GetConversionRate(store_id, start_date, NULL, "week")

SpecConversion == InitAnalytics /\ [][NextConversion]_vars

\* The three rate reports over orders of two customers, with a window that
\* may start after an order was placed.
NextRates ==
  \/ Tick
  \/ \E items \in OneUnit, c \in AnalyticsCustomerIds :
       CreateOrderUpTo(items, c, MaxAnalyticsOrders)
  \/ \E o \in AnalyticsOrderIds, st \in {DELIVERED, CANCELED} : UpdateOrder(o, st)
  \/ \E store_id \in StoreIds, start_date \in Times \cup {NULL} :
       GetReturnedOrders(store_id, start_date, NULL, "week")
  \/ \E store_id \in StoreIds, start_date \in Times \cup {NULL} :
       GetFulfilledOrders(store_id, start_date, NULL, "week")
  \/ \E store_id \in StoreIds, start_date \in Times \cup {NULL} :
       GetConversionRate(store_id, start_date, NULL, "week")

SpecRates == InitAnalytics /\ [][NextRates]_vars

\* the growth of a store over the last week or month is asked for while
\* orders are placed and canceled, a week and more apart
NextGrowth ==
  \/ \E ticks \in {Days(7) + 1, Days(8)} : Elapse(ticks, 1 + Days(8))
  \/ \E items \in AnalyticsOrderCreate, c \in AnalyticsCustomerIds :
       CreateOrderUpTo(items, c, MaxAnalyticsOrders)
  \/ \E o \in AnalyticsOrderIds : UpdateOrder(o, CANCELED)
  \/ \E store_id \in StoreIds, period \in {"week", "month"} :
       GetGrowthMetrics(store_id, period)
  \/ \E store_id \in StoreIds : GetSalesPerformance(store_id, NULL, NULL)

SpecGrowth == InitAnalytics /\ [][NextGrowth]_vars

\* The catalogue: products and categories are created, edited, moved, deleted.
NextCatalog ==
  \/ \E product_data \in ProductCreates : CreateProduct(product_data)
  \/ \E p \in 1..MaxProducts, product_data \in ProductUpdateCategory \cup ProductUpdateActive :
       UpdateProduct(p, product_data)
  \/ \E p \in 1..MaxProducts : DeleteProduct(p)
  \/ \E c \in CategoryIds : DeleteCategory(c)
  \/ \E c, d \in CategoryIds : MoveProductsToCategory(c, d)

SpecCatalog == Init /\ [][NextCatalog]_vars

\* Store owners and customers call the store endpoints.
NextStores ==
  \/ \E store_data \in StoreCreates, user \in UserIds : CreateStore(store_data, user)
  \/ \E i \in 1..(NumStores + 1), name \in StoreNames, user \in UserIds :
       UpdateStore(i, name, user)
  \/ \E i \in 1..(NumStores + 1), user \in UserIds : DeleteStore(i, user)

SpecStores == Init /\ [][NextStores]_vars

\* Two customers review the products of the catalogue.
NextReviews ==
  \/ CreateProduct([store_id |-> 1, category_id |-> 1])
  \/ \E review_data \in ReviewCreates, c \in AnalyticsCustomerIds :
       CreateReview(review_data, c)
  \/ \E i \in 1..MaxReviews, rating \in Ratings, c \in AnalyticsCustomerIds :
       UpdateReview(i, rating, c)
  \/ \E i \in 1..MaxReviews, c \in AnalyticsCustomerIds : DeleteReview(i, c)

SpecReviews == Init /\ [][NextReviews]_vars

\* A customer and a store owner write to two stores, read and delete.
ChatUserIds == {1, FirstOwner}

NextChat ==
  \/ CreateStore([name |-> "shop", owner_id |-> FirstOwner], FirstOwner)
  \/ \E s \in StoreIds, u \in ChatUserIds : CreateMessage(s, u)
  \/ \E s \in DOMAIN stores, u \in ChatUserIds : CreateSystemMessage(u, s)
  \/ \E ids \in SUBSET (1..MaxMessages), u \in ChatUserIds : MarkAsRead(ids, u)
  \/ \E s \in StoreIds, u \in ChatUserIds : MarkConversationAsRead(u, s)
  \/ \E s \in StoreIds \cup {NULL}, u \in ChatUserIds : GetUnreadCount(u, s)
  \/ \E i \in 1..MaxMessages, u \in ChatUserIds : DeleteMessage(i, u)

SpecChat == Init /\ [][NextChat]_vars

\* Two users open and close WebSocket connections to two stores.
NextConnections ==
  \/ \E w \in WebSockets, u \in ChatUserIds, s \in StoreIds, accepted \in BOOLEAN :
       Connect(w, u, s, accepted)
  \/ \E u \in ChatUserIds, s \in StoreIds : Disconnect(u, s)

SpecConnections == Init /\ [][NextConnections]_vars

\* ---------------------------------------------------------------- claims

\* the step is a call of op (time does not pass during a call)
Called(op) == last'.op = op /\ now' = now

\* units of product p on the lines
RECURSIVE Quantity(_, _)
Quantity(lines, p) ==
  IF lines = <<>> THEN 0
  ELSE (IF Head(lines).product_id = p THEN Head(lines).quantity ELSE 0)
         + Quantity(Tail(lines), p)

\* sum of quantity x unit_price over the lines
RECURSIVE LineSum(_)
LineSum(lines) ==
  IF lines = <<>> THEN 0
  ELSE Head(lines).quantity * Head(lines).unit_price + LineSum(Tail(lines))

\* the status changes of the order state machine
AllowedTransition(from, to) ==
  \/ from = PENDING /\ to = CONFIRMED
  \/ from = CONFIRMED /\ to = SHIPPED
  \/ from = SHIPPED /\ to = DELIVERED
  \/ from \in {PENDING, CONFIRMED, SHIPPED} /\ to = CANCELED

\* C1: in every reachable state every product's stock is >= 0.
C1_StockNonNegative == \A p \in ProductIds : products[p].stock >= 0

\* C2: of two concurrent single-line create_order requests for the same product,
\* whose stock satisfies each quantity but not both, exactly one succeeds, the
\* other fails with insufficient stock, and the stock stays >= 0.
C2_AtMostOneSucceeds ==
  \A s1, s2 \in SessionIds, p \in ProductIds :
    LET r1 == sessions[s1]
        r2 == sessions[s2]
    IN (/\ s1 # s2
        /\ r1.pc = "done" /\ r2.pc = "done"
        /\ Len(r1.items) = 1 /\ r1.items[1].product_id = p
        /\ Len(r2.items) = 1 /\ r2.items[1].product_id = p
        /\ last.pre[p] >= r1.items[1].quantity
        /\ last.pre[p] >= r2.items[1].quantity
        /\ last.pre[p] < r1.items[1].quantity + r2.items[1].quantity)
       => /\ {r1.result, r2.result} = {"ok", "insufficient"}
          /\ products[p].stock >= 0

\* C3: a create_order call that fails persists no order and no line and leaves
\* the stock of every product unchanged.
C3_AllOrNothing ==
  [][(Called("create_order") /\ ~last'.ok)
       => (orders' = orders /\ next_order_id' = next_order_id /\ products' = products)]_vars

\* C3 witness: a failed request whose first line was valid and whose second failed
C3_Witness ==
  /\ last.op = "create_order" /\ ~last.ok
  /\ Len(last.arg) = 2
  /\ ValidateLine(products, last.arg[1]) = "ok"
  /\ ValidateLine(products, last.arg[2]) # "ok"

\* C4: an update_order call that requests a status change outside the state
\* machine is rejected and leaves the status unchanged.
C4_InvalidTransitionRejected ==
  [][\A o \in DOMAIN orders :
       (/\ Called("update_order") /\ last'.order = o
        /\ last'.arg \in OrderStatus
        /\ last'.arg # orders[o].status
        /\ ~AllowedTransition(orders[o].status, last'.arg))
       => (~last'.ok /\ o \in DOMAIN orders' /\ orders'[o].status = orders[o].status)]_vars

\* C5: once an order is delivered or canceled its status never changes again.
C5_TerminalStatus ==
  [][\A o \in DOMAIN orders \cap DOMAIN orders' :
       orders[o].status \in {DELIVERED, CANCELED}
         => orders'[o].status = orders[o].status]_vars

\* C6: cancel_order on a delivered or canceled order fails and changes nothing;
\* on a pending, confirmed or shipped order it sets status canceled, sets
\* canceled_at and adds each line's quantity back to its product's stock.
C6_CancelOrder ==
  [][\A o \in DOMAIN orders :
       (Called("cancel_order") /\ last'.order = o)
       => IF orders[o].status \in {DELIVERED, CANCELED}
          THEN ~last'.ok /\ orders' = orders /\ products' = products
          ELSE /\ last'.ok
               /\ orders'[o].status = CANCELED
               /\ orders'[o].canceled_at = now
               /\ \A p \in ProductIds :
                    products'[p].stock
                      = products[p].stock + Quantity(orders[o].lines, p)]_vars

\* C6 witness: cancel_order was refused on a delivered order
C6_Witness ==
  /\ last.op = "cancel_order" /\ ~last.ok
  /\ last.order \in DOMAIN orders
  /\ orders[last.order].status = DELIVERED
  /\ orders[last.order].canceled_at = NULL

\* C7: a successful create_order takes the ordered quantity off the stock, and
\* canceling that order right after returns the stock to what create_order found.
C7_RoundTrip ==
  [][/\ \A o \in DOMAIN orders' \ DOMAIN orders :
          (Called("create_order") /\ last'.ok /\ last'.order = o)
          => \A p \in ProductIds :
               products'[p].stock
                 = products[p].stock - Quantity(orders'[o].lines, p)
     /\ (/\ last.op = "create_order" /\ last.ok
         /\ Called("cancel_order") /\ last'.ok /\ last'.order = last.order)
        => Stock(products') = last.pre]_vars

\* C7 witness: an order went from pending straight to canceled by cancel_order
\* and the stock holds the units of its lines again
C7_Witness ==
  /\ last.op = "cancel_order" /\ last.ok
  /\ last.order \in DOMAIN orders
  /\ orders[last.order].shipped_at = NULL
  /\ orders[last.order].delivered_at = NULL
  /\ \E p \in ProductIds :
       /\ Quantity(orders[last.order].lines, p) > 0
       /\ products[p].stock >= Quantity(orders[last.order].lines, p)

C9_ExclusivePaths ==
  \A o \in DOMAIN orders :
    ~(orders[o].delivered_at # NULL /\ orders[o].canceled_at # NULL)

\* C10: once set, shipped_at and delivered_at never change.
C10_WriteOnce ==
  [][\A o \in DOMAIN orders \cap DOMAIN orders' :
       /\ orders[o].shipped_at # NULL => orders'[o].shipped_at = orders[o].shipped_at
       /\ orders[o].delivered_at # NULL
            => orders'[o].delivered_at = orders[o].delivered_at]_vars

\* C10 witness: an order shipped and then delivered was marked shipped again
C10_Witness ==
  /\ last.op = "update_order" /\ last.ok
  /\ last.order \in DOMAIN orders
  /\ last.arg = SHIPPED
  /\ orders[last.order].status = SHIPPED
  /\ orders[last.order].shipped_at # NULL
  /\ orders[last.order].delivered_at # NULL
  /\ orders[last.order].shipped_at < orders[last.order].delivered_at

\* C11: delete_order removes the order; for a pending, confirmed or shipped
\* order it first adds each line's quantity back to its product's stock, for
\* a delivered or canceled order it leaves every stock unchanged.
C11_DeleteOrder ==
  [][\A o \in DOMAIN orders :
       (Called("delete_order") /\ last'.order = o)
       => /\ o \notin DOMAIN orders'
          /\ \A p \in ProductIds :
               products'[p].stock =
                 IF orders[o].status \in {PENDING, CONFIRMED, SHIPPED}
                 THEN products[p].stock + Quantity(orders[o].lines, p)
                 ELSE products[p].stock]_vars

\* a line of the request fails one of the three checks
LineFails(prods, item) ==
  \/ item.product_id \notin ProductIds
  \/ ~prods[item.product_id].is_active
  \/ prods[item.product_id].stock < item.quantity

\* C12: a single-line order for exactly the stock s of an active product
\* succeeds and leaves stock 0; one for s + 1 fails with the insufficient-stock
\* error that reports s as available, and the stock stays s.
C12_StockBoundary ==
  [][\A p \in ProductIds :
       (/\ Called("create_order")
        /\ Len(last'.arg) = 1
        /\ last'.arg[1].product_id = p
        /\ products[p].is_active)
       => LET s == products[p].stock
              q == last'.arg[1].quantity
          IN /\ (q = s) => (last'.ok /\ products'[p].stock = 0)
             /\ (q = s + 1) => /\ ~last'.ok
                               /\ last'.err = "insufficient"
                               /\ last'.detail = s
                               /\ products'[p].stock = s]_vars

\* C12 witness: an order for one unit more than a non-empty stock was refused
C12_Witness ==
  /\ last.op = "create_order" /\ ~last.ok /\ last.err = "insufficient"
  /\ Len(last.arg) = 1
  /\ last.arg[1].product_id \in ProductIds
  /\ products[last.arg[1].product_id].stock >= 1
  /\ last.arg[1].quantity = products[last.arg[1].product_id].stock + 1
  /\ last.detail = products[last.arg[1].product_id].stock

\* C13: create_order returns the error of the first failing check (exists,
\* then active, then quantity <= stock) of the first failing line of the
\* request, and succeeds when no line fails.
C13_ValidationOrder ==
  [][Called("create_order")
       => LET items == last'.arg
              bad == {k \in 1..Len(items) : LineFails(products, items[k])}
          IN IF bad = {} THEN last'.ok
             ELSE LET k == CHOOSE i \in bad : \A j \in bad : i <= j
                      item == items[k]
                  IN /\ ~last'.ok
                     /\ last'.err =
                          IF item.product_id \notin ProductIds THEN "not_found"
                          ELSE IF ~products[item.product_id].is_active THEN "inactive"
                          ELSE "insufficient"]_vars

\* C13 witness: a line that fails both the active check and the stock check
\* is reported as inactive
C13_Witness ==
  /\ last.op = "create_order" /\ ~last.ok /\ last.err = "inactive"
  /\ \E k \in 1..Len(last.arg) :
       /\ last.arg[k].product_id \in ProductIds
       /\ ~products[last.arg[k].product_id].is_active
       /\ products[last.arg[k].product_id].stock < last.arg[k].quantity
       /\ \A j \in 1..(k - 1) : ~LineFails(products, last.arg[j])

C20_WindowStart ==
  (last.op = "get_total_income")
    => last.detail.start_date =
         IF last.arg.start_date # NULL THEN last.arg.start_date
         ELSE last.detail.end_date
                - TicksPerDay * (CASE last.arg.period = "week" -> 7
                                   [] last.arg.period = "month" -> 30
                                   [] last.arg.period = "quarter" -> 90
                                   [] last.arg.period = "year" -> 365
                                   [] OTHER -> 7)

\* C20 witness: an income asked for without dates and with an unknown period
\* covers the seven days before the call and counts an order delivered in them
C20_Witness ==
  /\ last.op = "get_total_income"
  /\ last.arg.start_date = NULL /\ last.arg.end_date = NULL
  /\ last.arg.period = "day"
  /\ last.detail.end_date = now
  /\ last.detail.start_date = now - 7 * TicksPerDay
  /\ last.detail.total_income > 0

\* sum of quantity x unit_price, or of quantity x the product's production
\* cost, over the lines whose product belongs to the store
RECURSIVE StoreLineSum(_, _, _, _)
StoreLineSum(lines, prods, store_id, of_cost) ==
  IF lines = <<>> THEN 0
  ELSE (IF prods[Head(lines).product_id].store_id # store_id THEN 0
        ELSE IF of_cost
        THEN Head(lines).quantity * prods[Head(lines).product_id].production_cost
        ELSE Head(lines).quantity * Head(lines).unit_price)
       + StoreLineSum(Tail(lines), prods, store_id, of_cost)

\* C18: get_total_revenue reports total_income as the sum of quantity x
\* unit_price over the lines of the store's products in the orders that are
\* delivered now with delivered_at inside the window, total_revenue as that
\* income minus the sum of quantity x production_cost over the same lines, and
\* profit_margin as revenue / income x 100 to two decimals, 0 when income is 0.
C18_TotalRevenue ==
  (last.op = "get_total_revenue")
    => LET report == last.detail
           delivered == {o \in DOMAIN orders :
                           /\ orders[o].status = DELIVERED
                           /\ orders[o].delivered_at >= report.start_date
                           /\ orders[o].delivered_at <= report.end_date}
           income == Sum([o \in delivered |->
                            StoreLineSum(orders[o].lines, products, last.arg.store_id, FALSE)])
           costs == Sum([o \in delivered |->
                           StoreLineSum(orders[o].lines, products, last.arg.store_id, TRUE)])
           error == report.profit_margin_percent * income - (income - costs) * 100 * 100
       IN /\ report.total_income = income
          /\ report.total_revenue = income - costs
          /\ IF income = 0 THEN report.profit_margin_percent = 0
             ELSE 2 * error <= income /\ -2 * error <= income

\* C18 witness: a revenue report over two delivered orders, with costs, a margin
\* that is no whole percent, and an order delivered earlier that is left out
C18_Witness ==
  /\ last.op = "get_total_revenue"
  /\ last.detail.total_costs > 0
  /\ last.detail.total_revenue > 0
  /\ last.detail.profit_margin_percent % 100 # 0
  /\ \E o1, o2 \in DOMAIN orders :
       /\ o1 # o2
       /\ orders[o1].status = DELIVERED
       /\ orders[o2].status = DELIVERED
       /\ last.detail.total_income = LineSum(orders[o1].lines) + LineSum(orders[o2].lines)

\* the orders with a line of the store's products and created_at in the window
\* of the report
OrdersInWindow(store_id, report) ==
  {o \in DOMAIN orders :
     /\ StoreLineSum(orders[o].lines, products, store_id, FALSE) > 0
     /\ orders[o].created_at >= report.start_date
     /\ orders[o].created_at <= report.end_date}

\* percent, in hundredths, is n / d x 100 to two decimals, or 0 when d is 0
IsRate(percent, n, d) ==
  IF d = 0 THEN percent = 0
  ELSE /\ 2 * (percent * d - n * 100 * 100) <= d
       /\ 2 * (n * 100 * 100 - percent * d) <= d

IsGrowth(percent, current, previous) ==
  IF previous > 0
  THEN /\ 2 * (percent * previous - (current - previous) * 100 * 10) <= previous
       /\ 2 * ((current - previous) * 100 * 10 - percent * previous) <= previous
  ELSE IF current > 0 THEN percent = 100 * 10
  ELSE percent = 0

\* C16: get_growth_metrics reports, for sales, customers and average order
\* value, the growth (current - previous) / previous x 100 when previous > 0,
\* 100 when previous is 0 and current > 0, and 0 when both are 0.
C16_GrowthPercent ==
  [][Called("get_growth_metrics")
       => /\ last'.ok
          /\ LET report == last'.detail
                 locals == report.locals
             IN /\ IsGrowth(report.monthly_growth,
                            locals.current_sales, locals.previous_sales)
                /\ IsGrowth(report.customer_growth,
                            locals.current_customers, locals.previous_customers)
                /\ IsGrowth(report.aov_growth,
                            locals.current_aov.sum * locals.previous_aov.rows,
                            locals.previous_aov.sum * locals.current_aov.rows)]_vars

\* C17: in get_growth_metrics the previous period ends where the current one
\* starts and lasts as long, so every creation time from the start of the
\* previous period to the end of the current one is inside one of the two.
C17_PreviousPeriod ==
  [][Called("get_growth_metrics")
       => LET locals == last'.detail.locals
          IN /\ locals.prev_end_date = locals.start_date
             /\ locals.prev_end_date - locals.prev_start_date
                  = locals.end_date - locals.start_date
             /\ \A t \in locals.prev_start_date..locals.end_date :
                  \/ (t >= locals.prev_start_date /\ t <= locals.prev_end_date)
                  \/ (t >= locals.start_date /\ t <= locals.end_date)]_vars

\* C25: for every order and every product, the quantity added back to the
\* product's stock on behalf of the order, over all update_order, cancel_order
\* and delete_order calls, never exceeds the quantity create_order took off.
C25_RestoredAtMostOnce ==
  \A o \in DOMAIN orders, p \in ProductIds :
    orders[o].restored * Quantity(orders[o].lines, p) <= Quantity(orders[o].lines, p)

\* C26: an order with status shipped has shipped_at set, one with status
\* delivered has delivered_at set, one with status canceled has canceled_at set.
C26_StatusTimestamps ==
  \A o \in DOMAIN orders :
    /\ orders[o].status = SHIPPED => orders[o].shipped_at # NULL
    /\ orders[o].status = DELIVERED => orders[o].delivered_at # NULL
    /\ orders[o].status = CANCELED => orders[o].canceled_at # NULL

\* C26 witness: an order canceled through update_order after it was shipped
C26_Witness ==
  /\ last.op = "update_order" /\ last.ok /\ last.arg = CANCELED
  /\ orders[last.order].status = CANCELED
  /\ orders[last.order].shipped_at # NULL
  /\ orders[last.order].canceled_at # NULL

\* the orders that are not canceled, were created inside [from, to] and hold a
\* line of the store's products
Qualifying(store_id, from, to) ==
  {o \in DOMAIN orders :
     /\ orders[o].status # CANCELED
     /\ orders[o].created_at >= from /\ orders[o].created_at <= to
     /\ \E k \in 1..Len(orders[o].lines) :
          products[orders[o].lines[k].product_id].store_id = store_id}

\* C27: the sales total of a window in get_growth_metrics and in
\* get_sales_performance counts the total_amount of each qualifying order
\* once, however many lines of the store's products the order holds.
C27_SalesOncePerOrder ==
  /\ (last.op = "get_sales_performance")
       => last.detail.total_sales =
            Sum([o \in Qualifying(last.arg.store_id, last.detail.start_date,
                                  last.detail.end_date) |-> orders[o].total_amount])
  /\ (last.op = "get_growth_metrics")
       => LET locals == last.detail.locals
          IN /\ locals.current_sales =
                  Sum([o \in Qualifying(last.arg.store_id, locals.start_date,
                                        locals.end_date) |-> orders[o].total_amount])
             /\ locals.previous_sales =
                  Sum([o \in Qualifying(last.arg.store_id, locals.prev_start_date,
                                        locals.prev_end_date) |-> orders[o].total_amount])

\* C29: for a fixed window and a fixed set of delivered orders, total_revenue
\* and total_costs of get_total_revenue are the same before and after an
\* update_product that changes a product's production_cost.
C29_CostsOfDeliveredOrders ==
  [][(last'.op = "update_product" /\ orders' = orders)
       => \A store_id \in StoreIds :
            LET before == get_total_revenue(orders, products, store_id, 0, MaxTime, "week", now)
                after  == get_total_revenue(orders', products', store_id, 0, MaxTime, "week", now')
            IN /\ after.total_revenue = before.total_revenue
               /\ after.total_costs = before.total_costs]_vars

\* C28: return_rate_percent of get_returned_orders, fulfillment_rate_percent
\* of get_fulfilled_orders and customer_conversion_rate_percent of
\* get_conversion_rate never exceed 100 (rates are held in hundredths).
C28_RatesAtMost100 ==
  /\ (last.op = "get_returned_orders") => last.detail.return_rate_percent <= 100 * 100
  /\ (last.op = "get_fulfilled_orders") => last.detail.fulfillment_rate_percent <= 100 * 100
  /\ (last.op = "get_conversion_rate")
       => last.detail.customer_conversion_rate_percent <= 100 * 100

\* C21: every product's category_id refers to an existing category, and a
\* delete_category of a category that a product references has failed and
\* has left the category in place.
C21_CategoryOfProduct ==
  /\ \A p \in DOMAIN products : products[p].category_id \in categories
  /\ (/\ last.op = "delete_category"
      /\ \E p \in DOMAIN products : products[p].category_id = last.arg)
       => ~last.ok /\ last.arg \in categories

\* C21 witness: a delete_category was refused because of a product that had
\* been moved into the category, after the other category was deleted
C21_Witness ==
  /\ last.op = "delete_category" /\ ~last.ok /\ last.err = "category_has_products"
  /\ \E p \in DOMAIN products : products[p].category_id = last.arg
  /\ categories = {last.arg}

\* C22: each store-type user owns at most one store: no two rows of the
\* stores table have the same owner_id.
C22_OneStorePerOwner ==
  \A i, j \in DOMAIN stores : stores[i].owner_id = stores[j].owner_id => i = j

\* C23: a customer has at most one review per product, and a create_review by
\* a customer who already has a review of the product fails with the
\* already-reviewed error and leaves the reviews table as it was.
C23_OneReviewPerProduct ==
  [][/\ \A i, j \in DOMAIN reviews' :
          (/\ reviews'[i].customer_id = reviews'[j].customer_id
           /\ reviews'[i].product_id = reviews'[j].product_id) => i = j
     /\ (/\ last'.op = "create_review"
         /\ \E i \in DOMAIN reviews :
              /\ reviews[i].customer_id = last'.detail.user
              /\ reviews[i].product_id = last'.arg.product_id)
          => /\ ~last'.ok
             /\ last'.err = "already_reviewed"
             /\ reviews' = reviews]_vars

\* C23 witness: a second create_review was refused and the customer's review
\* of the product keeps its other rating, next to a review by another customer
C23_Witness ==
  /\ last.op = "create_review" /\ last.err = "already_reviewed"
  /\ \E i, j \in DOMAIN reviews :
       /\ reviews[i].customer_id = last.detail.user
       /\ reviews[i].product_id = last.arg.product_id
       /\ reviews[i].rating # last.arg.rating
       /\ reviews[j].customer_id # last.detail.user
       /\ reviews[j].product_id = last.arg.product_id

\* a message was created in the conversation of the user with the store
CreatedIn(user_id, store_id) ==
  /\ Len(messages') > Len(messages)
  /\ messages'[Len(messages')].sender_id = user_id
  /\ messages'[Len(messages')].store_id = store_id

\* C24: mark_conversation_as_read(user, store) returns the number of
\* non-deleted unread messages of the conversation and leaves
\* get_unread_count(user, store) at 0, and a count of 0 stays 0 over every
\* step that creates no message in that conversation.
C24_UnreadAfterRead ==
  [][\A u \in ChatUserIds, s \in StoreIds :
       /\ (last'.op = "mark_conversation_as_read" /\ last'.arg = <<u, s>>)
            => /\ get_unread_count(messages', u, s) = 0
               /\ last'.detail =
                    Cardinality({i \in DOMAIN messages :
                                   /\ messages[i].sender_id = u
                                   /\ messages[i].store_id = s
                                   /\ messages[i].status # READ
                                   /\ ~messages[i].is_deleted})
       /\ (get_unread_count(messages, u, s) = 0 /\ ~CreatedIn(u, s))
            => get_unread_count(messages', u, s) = 0]_vars

\* C24 witness: a mark_conversation_as_read that returned 1 for a conversation
\* that also holds a deleted message, which stays unread and is not counted
C24_Witness ==
  /\ last.op = "mark_conversation_as_read" /\ last.detail = 1
  /\ \E i \in DOMAIN messages :
       /\ <<messages[i].sender_id, messages[i].store_id>> = last.arg
       /\ messages[i].is_deleted /\ messages[i].status # READ
  /\ get_unread_count(messages, last.arg[1], last.arg[2]) = 0

\* C30: a user is online exactly when active_connections holds at least one
\* connection of the user, and active_connections holds no empty per-user map.
C30_OnlineUsers ==
  /\ \A u \in ChatUserIds :
       is_user_online(u) <=> (/\ u \in DOMAIN active_connections
                              /\ DOMAIN active_connections[u] # {})
  /\ \A u \in DOMAIN active_connections : DOMAIN active_connections[u] # {}
  /\ online_users \subseteq ChatUserIds

\* C30 witness: a disconnect closed the last connection of a user, who is no
\* longer online, while the other user is still connected to two stores
C30_Witness ==
  /\ last.op = "disconnect" /\ last.detail = TRUE
  /\ ~is_user_online(last.arg[1])
  /\ last.arg[1] \notin DOMAIN active_connections
  /\ \E u \in DOMAIN active_connections :
       is_user_online(u) /\ Cardinality(DOMAIN active_connections[u]) = 2
====
